---- MODULE Spec2Model ----
(***************************************************************************)
(* Model of crates/trie/common/src/prefix_set.rs: the PrefixSetMut builder, *)
(* the frozen PrefixSet with its resumable cursor, and the aggregate        *)
(* TriePrefixSetsMut / TriePrefixSets.                                      *)
(***************************************************************************)
EXTENDS Integers, Sequences, FiniteSets, TLC

VARIABLES
    phase,      \* "mut": the builder is live; "frozen": freeze() consumed it
    pm,         \* the PrefixSetMut being built: [all, keys, cap]
    inserted,   \* history: the paths handed to insert / extend / extend_keys
    fs,         \* the frozen PrefixSet: [all, index, keys, cap]
    last,       \* history: the last operation and what it did
    acct,       \* SpecMono: the work of a run of ascending queries
    clones,     \* SpecClones: two clones of fs and their private copies
    agg,        \* SpecAgg: the aggregates and their merges
    err         \* SpecErr: an InsertBlockErrorKind and its classification

vars == <<phase, pm, inserted, fs, last, acct, clones, agg, err>>

(***************************************************************************)
(* Bounds                                                                  *)
(***************************************************************************)
\* Largest number of keys a builder holds in the model.
MaxKeys == 3
\* Largest argument of with_capacity in the model.
MaxCap == 4
\* The nibble values of the model, a subset of 0..15.
Nibble == {0, 1}

Max(a, b) == IF a >= b THEN a ELSE b

RECURSIVE PathsOfLen(_)
PathsOfLen(n) ==
    IF n = 0 THEN {<<>>}
    ELSE {Append(p, x) : p \in PathsOfLen(n - 1), x \in Nibble}

\* Every nibble path of the model: the paths of length 0, 1 and 2 (the program
\* allows up to 64 nibbles).
Paths == UNION {PathsOfLen(n) : n \in {0, 1, 2}}

RECURSIVE SeqsOfLen(_, _)
SeqsOfLen(S, n) ==
    IF n = 0 THEN {<<>>}
    ELSE {Append(s, x) : s \in SeqsOfLen(S, n - 1), x \in S}

\* Every sequence over S of length at most n.
SeqsUpTo(S, n) == UNION {SeqsOfLen(S, k) : k \in 0..n}

Range(s) == {s[i] : i \in 1..Len(s)}

(***************************************************************************)
(* Nibbles: lexicographic order and starts_with                            *)
(***************************************************************************)
\* Nibbles::starts_with
StartsWith(key, prefix) ==
    /\ Len(prefix) <= Len(key)
    /\ \A i \in 1..Len(prefix) : key[i] = prefix[i]

\* a < b in the lexicographic order of Nibbles (Ord).
Less(a, b) ==
    \/ /\ Len(a) < Len(b)
       /\ \A i \in 1..Len(a) : a[i] = b[i]
    \/ \E i \in 1..Len(a) :
          /\ i <= Len(b)
          /\ \A j \in 1..(i - 1) : a[j] = b[j]
          /\ a[i] < b[i]

\* a > b, as the code writes it.
Greater(a, b) == Less(b, a)

(***************************************************************************)
(* Vec<Nibbles>: contents and capacity                                     *)
(***************************************************************************)
\* Capacity after making room for `required` elements (amortized growth).
GrowCap(cap, required) ==
    IF required <= cap THEN cap ELSE Max(4, Max(2 * cap, required))

\* a <= b
LessEq(a, b) == a = b \/ Less(a, b)

\* Vec::sort_unstable: the elements of s in ascending order; position i holds
\* the element with fewer than i elements below it and at least i not above it.
sort_unstable(s) ==
    [i \in 1..Len(s) |->
        CHOOSE x \in Range(s) :
            /\ Cardinality({j \in 1..Len(s) : Less(s[j], x)}) < i
            /\ i <= Cardinality({j \in 1..Len(s) : LessEq(s[j], x)})]

\* Mutant of dedup: the duplicates are kept.
dedup_keeps_duplicates(s) == s

\* Vec::dedup: keeps the elements that differ from the one before them.
dedup(s) ==
    LET kept == {i \in 1..Len(s) : i = 1 \/ s[i] # s[i - 1]}
    IN [k \in 1..Cardinality(kept) |->
           s[CHOOSE i \in kept : Cardinality({j \in kept : j <= i}) = k]]

\* Mutant of shrink_to_fit: the spare capacity is kept.
shrink_to_fit_keeps_capacity(len, cap) == cap

\* Vec::shrink_to_fit: the capacity afterwards.
shrink_to_fit(len, cap) == IF cap > len THEN len ELSE cap

(***************************************************************************)
(* PrefixSetMut                                                            *)
(***************************************************************************)
\* PrefixSetMut::default()
PrefixSetMutDefault == [all |-> FALSE, keys |-> <<>>, cap |-> 0]

\* PrefixSetMut::with_capacity(capacity)
with_capacity(capacity) == [all |-> FALSE, keys |-> <<>>, cap |-> capacity]

\* PrefixSetMut::all()
PrefixSetMutAll == [all |-> TRUE, keys |-> <<>>, cap |-> 0]

\* Mutant of insert: the push is skipped while the all flag is set.
insert_skips_when_all(self, nibbles) ==
    IF self.all THEN self
    ELSE [self EXCEPT !.keys = Append(self.keys, nibbles),
                      !.cap = GrowCap(self.cap, Len(self.keys) + 1)]

\* Mutant of insert: a path that is already among the keys is not pushed.
insert_if_absent(self, nibbles) ==
    IF nibbles \in Range(self.keys) THEN self
    ELSE [self EXCEPT !.keys = Append(self.keys, nibbles),
                      !.cap = GrowCap(self.cap, Len(self.keys) + 1)]

\* PrefixSetMut::insert
insert(self, nibbles) ==
    [self EXCEPT !.keys = Append(self.keys, nibbles),
                 !.cap = GrowCap(self.cap, Len(self.keys) + 1)]

\* Mutant of extend: the flag is assigned (`=`) instead of or-ed (`|=`).
extend_assigns_all(self, other) ==
    [all |-> other.all,
     keys |-> self.keys \o other.keys,
     cap |-> GrowCap(self.cap, Len(self.keys) + Len(other.keys))]

\* Mutant of extend: the flag is merged but the keys of other are dropped.
extend_drops_keys(self, other) ==
    [all |-> self.all \/ other.all, keys |-> self.keys, cap |-> self.cap]

\* PrefixSetMut::extend
extend(self, other) ==
    [all |-> self.all \/ other.all,
     keys |-> self.keys \o other.keys,
     cap |-> GrowCap(self.cap, Len(self.keys) + Len(other.keys))]

\* Mutant of extend_keys: the all flag is cleared.
extend_keys_clears_all(self, ks) ==
    [all |-> FALSE,
     keys |-> self.keys \o ks,
     cap |-> GrowCap(self.cap, Len(self.keys) + Len(ks))]

\* PrefixSetMut::extend_keys
extend_keys(self, ks) ==
    [self EXCEPT !.keys = self.keys \o ks,
                 !.cap = GrowCap(self.cap, Len(self.keys) + Len(ks))]

\* PrefixSetMut::len
len(self) == Len(self.keys)

\* PrefixSetMut::is_empty
is_empty(self) == self.keys = <<>>

\* Mutant of clear: the keys are dropped but the all flag stays.
clear_keeps_all(self) == [self EXCEPT !.keys = <<>>]

\* PrefixSetMut::clear
clear(self) == [self EXCEPT !.all = FALSE, !.keys = <<>>]

\* PrefixSet::default()
PrefixSetDefault == [all |-> FALSE, index |-> 0, keys |-> <<>>, cap |-> 0]

\* Mutant of freeze: the all branch keeps the keys of the builder.
freeze_all_keeps_keys(self) ==
    LET ks == dedup(sort_unstable(self.keys))
    IN [all |-> self.all, index |-> 0, keys |-> ks,
        cap |-> shrink_to_fit(Len(ks), self.cap)]

\* PrefixSetMut::freeze
freeze(self) ==
    IF self.all
    THEN [all |-> TRUE, index |-> 0, keys |-> <<>>, cap |-> 0]
    ELSE LET ks == dedup(sort_unstable(self.keys))
         IN [all |-> FALSE, index |-> 0, keys |-> ks,
             cap |-> shrink_to_fit(Len(ks), self.cap)]

(***************************************************************************)
(* PrefixSet::contains                                                     *)
(***************************************************************************)
\* Mutant of Rewind: the loop compares keys[index - 1] instead of keys[index].
RECURSIVE RewindPrevious(_, _, _, _)
RewindPrevious(keys, index, prefix, steps) ==
    IF index > 0
    THEN IF index - 1 >= Len(keys)
         THEN [index |-> index, steps |-> steps, panic |-> TRUE]
         ELSE IF Greater(keys[index], prefix)
              THEN RewindPrevious(keys, index - 1, prefix, steps + 1)
              ELSE [index |-> index, steps |-> steps, panic |-> FALSE]
    ELSE [index |-> index, steps |-> steps, panic |-> FALSE]

\* Mutant of Rewind: `if` instead of `while`, the cursor steps back once.
RewindOnce(keys, index, prefix, steps) ==
    IF index > 0
    THEN IF index >= Len(keys)
         THEN [index |-> index, steps |-> steps, panic |-> TRUE]
         ELSE IF Greater(keys[index + 1], prefix)
              THEN [index |-> index - 1, steps |-> steps + 1, panic |-> FALSE]
              ELSE [index |-> index, steps |-> steps, panic |-> FALSE]
    ELSE [index |-> index, steps |-> steps, panic |-> FALSE]

\* Mutant of Rewind: the `self.index > 0` test is missing, keys[self.index] is
\* read at index 0 too and the decrement below 0 overflows.
RECURSIVE RewindUnguarded(_, _, _, _)
RewindUnguarded(keys, index, prefix, steps) ==
    IF index >= Len(keys)
    THEN [index |-> index, steps |-> steps, panic |-> TRUE]
    ELSE IF Greater(keys[index + 1], prefix)
         THEN IF index = 0
              THEN [index |-> index, steps |-> steps, panic |-> TRUE]
              ELSE RewindUnguarded(keys, index - 1, prefix, steps + 1)
         ELSE [index |-> index, steps |-> steps, panic |-> FALSE]

\* The rewind loop: `while self.index > 0 && &self.keys[self.index] > prefix`.
\* Indexing at or past keys.len() panics.
RECURSIVE Rewind(_, _, _, _)
Rewind(keys, index, prefix, steps) ==
    IF index > 0
    THEN IF index >= Len(keys)
         THEN [index |-> index, steps |-> steps, panic |-> TRUE]
         ELSE IF Greater(keys[index + 1], prefix)
              THEN Rewind(keys, index - 1, prefix, steps + 1)
              ELSE [index |-> index, steps |-> steps, panic |-> FALSE]
    ELSE [index |-> index, steps |-> steps, panic |-> FALSE]

\* Mutant of Scan: idx counts from the start of keys, not of the slice, so
\* `self.index += idx` adds the slice offset twice.
RECURSIVE ScanCountsFromStart(_, _, _, _)
ScanCountsFromStart(keys, index, idx, prefix) ==
    IF index + idx >= Len(keys)
    THEN [index |-> index, result |-> FALSE, examined |-> idx, atEnd |-> TRUE]
    ELSE LET key == keys[index + idx + 1]
         IN IF StartsWith(key, prefix)
            THEN [index |-> index + index + idx, result |-> TRUE,
                  examined |-> idx + 1, atEnd |-> FALSE]
            ELSE IF Greater(key, prefix)
                 THEN [index |-> index + index + idx, result |-> FALSE,
                       examined |-> idx + 1, atEnd |-> FALSE]
                 ELSE ScanCountsFromStart(keys, index, idx + 1, prefix)

\* Mutant of Scan: on a match the cursor moves past the matching key.
RECURSIVE ScanPastMatch(_, _, _, _)
ScanPastMatch(keys, index, idx, prefix) ==
    IF index + idx >= Len(keys)
    THEN [index |-> index, result |-> FALSE, examined |-> idx, atEnd |-> TRUE]
    ELSE LET key == keys[index + idx + 1]
         IN IF StartsWith(key, prefix)
            THEN [index |-> index + idx + 1, result |-> TRUE,
                  examined |-> idx + 1, atEnd |-> FALSE]
            ELSE IF Greater(key, prefix)
                 THEN [index |-> index + idx, result |-> FALSE,
                       examined |-> idx + 1, atEnd |-> FALSE]
                 ELSE ScanPastMatch(keys, index, idx + 1, prefix)

\* Mutant of Scan: `key > prefix` is tested before `key.starts_with(prefix)`.
RECURSIVE ScanOrderFirst(_, _, _, _)
ScanOrderFirst(keys, index, idx, prefix) ==
    IF index + idx >= Len(keys)
    THEN [index |-> index, result |-> FALSE, examined |-> idx, atEnd |-> TRUE]
    ELSE LET key == keys[index + idx + 1]
         IN IF Greater(key, prefix)
            THEN [index |-> index + idx, result |-> FALSE,
                  examined |-> idx + 1, atEnd |-> FALSE]
            ELSE IF StartsWith(key, prefix)
                 THEN [index |-> index + idx, result |-> TRUE,
                       examined |-> idx + 1, atEnd |-> FALSE]
                 ELSE ScanOrderFirst(keys, index, idx + 1, prefix)

\* Mutant of Scan: on a greater key `self.index += idx` is missing.
RECURSIVE ScanGreaterKeepsCursor(_, _, _, _)
ScanGreaterKeepsCursor(keys, index, idx, prefix) ==
    IF index + idx >= Len(keys)
    THEN [index |-> index, result |-> FALSE, examined |-> idx, atEnd |-> TRUE]
    ELSE LET key == keys[index + idx + 1]
         IN IF StartsWith(key, prefix)
            THEN [index |-> index + idx, result |-> TRUE,
                  examined |-> idx + 1, atEnd |-> FALSE]
            ELSE IF Greater(key, prefix)
                 THEN [index |-> index, result |-> FALSE,
                       examined |-> idx + 1, atEnd |-> FALSE]
                 ELSE ScanGreaterKeepsCursor(keys, index, idx + 1, prefix)

\* Mutant of Scan: on a match `self.index += idx` is missing.
RECURSIVE ScanMatchKeepsCursor(_, _, _, _)
ScanMatchKeepsCursor(keys, index, idx, prefix) ==
    IF index + idx >= Len(keys)
    THEN [index |-> index, result |-> FALSE, examined |-> idx, atEnd |-> TRUE]
    ELSE LET key == keys[index + idx + 1]
         IN IF StartsWith(key, prefix)
            THEN [index |-> index, result |-> TRUE,
                  examined |-> idx + 1, atEnd |-> FALSE]
            ELSE IF Greater(key, prefix)
                 THEN [index |-> index + idx, result |-> FALSE,
                       examined |-> idx + 1, atEnd |-> FALSE]
                 ELSE ScanMatchKeepsCursor(keys, index, idx + 1, prefix)

\* Mutant of Scan: a scan that reaches the end leaves the cursor on the last
\* key.
RECURSIVE ScanEndMovesCursor(_, _, _, _)
ScanEndMovesCursor(keys, index, idx, prefix) ==
    IF index + idx >= Len(keys)
    THEN [index |-> Max(index, Len(keys) - 1), result |-> FALSE,
          examined |-> idx, atEnd |-> TRUE]
    ELSE LET key == keys[index + idx + 1]
         IN IF StartsWith(key, prefix)
            THEN [index |-> index + idx, result |-> TRUE,
                  examined |-> idx + 1, atEnd |-> FALSE]
            ELSE IF Greater(key, prefix)
                 THEN [index |-> index + idx, result |-> FALSE,
                       examined |-> idx + 1, atEnd |-> FALSE]
                 ELSE ScanEndMovesCursor(keys, index, idx + 1, prefix)

\* The scan loop: `for (idx, key) in self.keys[self.index..].iter().enumerate()`.
RECURSIVE Scan(_, _, _, _)
Scan(keys, index, idx, prefix) ==
    IF index + idx >= Len(keys)
    THEN [index |-> index, result |-> FALSE, examined |-> idx, atEnd |-> TRUE]
    ELSE LET key == keys[index + idx + 1]
         IN IF StartsWith(key, prefix)
            THEN [index |-> index + idx, result |-> TRUE,
                  examined |-> idx + 1, atEnd |-> FALSE]
            ELSE IF Greater(key, prefix)
                 THEN [index |-> index + idx, result |-> FALSE,
                       examined |-> idx + 1, atEnd |-> FALSE]
                 ELSE Scan(keys, index, idx + 1, prefix)

\* Mutant of contains: the `if self.all` early return is missing.
contains_without_all_check(self, prefix) ==
    LET r == Rewind(self.keys, self.index, prefix, 0)
        s == Scan(self.keys, r.index, 0, prefix)
    IN [set |-> [self EXCEPT !.index = s.index],
        result |-> s.result, rewinds |-> r.steps,
        examined |-> s.examined, atEnd |-> s.atEnd, panic |-> FALSE]

\* PrefixSet::contains: the set afterwards, the answer, and what the call did.
contains(self, prefix) ==
    IF self.all
    THEN [set |-> self, result |-> TRUE, rewinds |-> 0, examined |-> 0,
          atEnd |-> FALSE, panic |-> FALSE]
    ELSE LET r == Rewind(self.keys, self.index, prefix, 0)
         IN IF r.panic
            THEN [set |-> self, result |-> FALSE, rewinds |-> r.steps,
                  examined |-> 0, atEnd |-> FALSE, panic |-> TRUE]
            ELSE LET s == Scan(self.keys, r.index, 0, prefix)
                 IN [set |-> [self EXCEPT !.index = s.index],
                     result |-> s.result, rewinds |-> r.steps,
                     examined |-> s.examined, atEnd |-> s.atEnd,
                     panic |-> FALSE]

\* Mutant of iter: the iteration starts at the cursor (`keys[self.index..]`).
iter_from_cursor(self) ==
    [set |-> self,
     items |-> SubSeq(self.keys, self.index + 1, Len(self.keys))]

\* PrefixSet::iter: the set afterwards (`&self`: as before) and what it yields.
iter(self) == [set |-> self, items |-> self.keys]

(***************************************************************************)
(* The life of one prefix set: build, freeze, query                        *)
(***************************************************************************)
\* History record of the last operation; NoOp is the construction.
NoOp ==
    [op |-> "new", prefix |-> <<>>, result |-> FALSE, pre |-> 0,
     rewinds |-> 0, examined |-> 0, atEnd |-> FALSE, panic |-> FALSE,
     repeated |-> FALSE, prevResult |-> FALSE,
     selfAll |-> FALSE, otherAll |-> FALSE, n |-> 0, cap |-> 0,
     selfKeys |-> <<>>, arg |-> <<>>, yielded |-> <<>>]

\* The record of a builder operation `name` applied to `self` (as it was before
\* the call) with an argument whose all flag is otherAll.
MutRecord(name, self, otherAll) ==
    [NoOp EXCEPT !.op = name, !.selfAll = self.all, !.otherAll = otherAll,
                 !.n = len(self), !.cap = self.cap]

\* The record of a builder operation that was handed the paths `arg`, with the
\* keys of `self` as they were before the call.
ArgRecord(name, self, otherAll, arg) ==
    [MutRecord(name, self, otherAll) EXCEPT !.selfKeys = self.keys,
                                            !.arg = arg]

\* The record of a contains call with outcome c, entered at index `pre`.
CallRecord(prefix, pre, c, prev) ==
    LET rep == prev.op = "contains" /\ prev.prefix = prefix
    IN [NoOp EXCEPT !.op = "contains", !.prefix = prefix, !.result = c.result,
                    !.pre = pre, !.rewinds = c.rewinds,
                    !.examined = c.examined, !.atEnd = c.atEnd,
                    !.panic = c.panic, !.repeated = rep,
                    !.prevResult = IF rep THEN prev.result ELSE FALSE]

\* The variables of the other specifications, unused here.
Unused == "unused"

Init ==
    /\ phase = "mut"
    /\ pm \in {PrefixSetMutDefault, PrefixSetMutAll}
                \cup {with_capacity(n) : n \in 1..MaxCap}
    /\ inserted = {}
    /\ fs = PrefixSetDefault
    /\ last = NoOp
    /\ acct = Unused
    /\ clones = Unused
    /\ agg = Unused
    /\ err = Unused

Insert(nibbles) ==
    /\ phase = "mut"
    /\ len(pm) < MaxKeys
    /\ pm' = insert(pm, nibbles)
    /\ inserted' = inserted \cup {nibbles}
    /\ last' = ArgRecord("insert", pm, FALSE, <<nibbles>>)
    /\ UNCHANGED <<phase, fs, acct, clones, agg, err>>

Extend(other) ==
    /\ phase = "mut"
    /\ len(pm) + len(other) <= MaxKeys
    /\ pm' = extend(pm, other)
    /\ inserted' = inserted \cup Range(other.keys)
    /\ last' = ArgRecord("extend", pm, other.all, other.keys)
    /\ UNCHANGED <<phase, fs, acct, clones, agg, err>>

ExtendKeys(ks) ==
    /\ phase = "mut"
    /\ len(pm) + Len(ks) <= MaxKeys
    /\ pm' = extend_keys(pm, ks)
    /\ inserted' = inserted \cup Range(ks)
    /\ last' = ArgRecord("extend_keys", pm, FALSE, ks)
    /\ UNCHANGED <<phase, fs, acct, clones, agg, err>>

Clear ==
    /\ phase = "mut"
    /\ pm' = clear(pm)
    /\ inserted' = {}
    /\ last' = MutRecord("clear", pm, FALSE)
    /\ UNCHANGED <<phase, fs, acct, clones, agg, err>>

Freeze ==
    /\ phase = "mut"
    /\ fs' = freeze(pm)
    /\ pm' = PrefixSetMutDefault
    /\ phase' = "frozen"
    /\ last' = MutRecord("freeze", pm, FALSE)
    /\ UNCHANGED <<inserted, acct, clones, agg, err>>

Contains(prefix) ==
    /\ phase = "frozen"
    /\ LET c == contains(fs, prefix)
       IN /\ fs' = c.set
          /\ last' = CallRecord(prefix, fs.index, c, last)
    /\ UNCHANGED <<phase, pm, inserted, acct, clones, agg, err>>

Iter ==
    /\ phase = "frozen"
    /\ LET r == iter(fs)
       IN /\ fs' = r.set
          /\ last' = [NoOp EXCEPT !.op = "iter", !.pre = fs.index,
                                  !.yielded = r.items]
    /\ UNCHANGED <<phase, pm, inserted, acct, clones, agg, err>>

\* The key sequences of at most n paths, for each n the builder can still take.
KeySeqs == [n \in 0..MaxKeys |-> SeqsUpTo(Paths, n)]

\* The builders handed to extend that still fit: from(keys), or all() extended.
Others ==
    {[all |-> a, keys |-> ks, cap |-> Len(ks)] :
        a \in BOOLEAN, ks \in KeySeqs[MaxKeys - len(pm)]}

Next ==
    \/ \E p \in Paths : Insert(p)
    \/ phase = "mut" /\ \E o \in Others : Extend(o)
    \/ phase = "mut" /\ \E ks \in KeySeqs[MaxKeys - len(pm)] : ExtendKeys(ks)
    \/ Clear
    \/ Freeze
    \/ \E p \in Paths : Contains(p)
    \/ Iter

Spec == Init /\ [][Next]_vars

(***************************************************************************)
(* A walker issuing ascending queries on a freshly frozen set              *)
(***************************************************************************)
\* Largest number of queries of one ascending run in the model.
MaxQueries == 4

\* The builders a frozen set comes from: from(keys), or all() extended by keys.
Builders ==
    {[all |-> a, keys |-> ks, cap |-> Len(ks)] :
        a \in BOOLEAN, ks \in KeySeqs[MaxKeys]}

InitMono ==
    /\ phase = "frozen"
    /\ pm = PrefixSetMutDefault
    /\ \E b \in Builders :
          /\ ~b.all
          /\ fs = freeze(b)
          /\ inserted = Range(b.keys)
    /\ last = NoOp
    /\ acct = [queries |-> 0, examined |-> 0, prev |-> <<>>]
    /\ clones = Unused
    /\ agg = Unused
    /\ err = Unused

\* One more query of the run, not below the previous one.
MonoContains(prefix) ==
    /\ acct.queries < MaxQueries
    /\ LessEq(acct.prev, prefix)
    /\ LET c == contains(fs, prefix)
       IN /\ fs' = c.set
          /\ last' = CallRecord(prefix, fs.index, c, last)
          /\ acct' = [queries |-> acct.queries + 1,
                      examined |-> acct.examined + c.examined,
                      prev |-> prefix]
    /\ UNCHANGED <<phase, pm, inserted, clones, agg, err>>

NextMono == \E p \in Paths : MonoContains(p)

SpecMono == InitMono /\ [][NextMono]_vars

(***************************************************************************)
(* Two clones of one frozen set, each used by its own walker               *)
(***************************************************************************)
Walkers == {1, 2}

\* Mutant of CursorOf: the index lives behind the Arc, one for all clones.
CursorOfShared(w) == 1

\* Where clone w keeps its cursor: `index` is a field of the PrefixSet value
\* itself, beside the Arc, so every clone has its own.
CursorOf(w) == w

\* #[derive(Clone)] on PrefixSet: all and index are copied, keys is the same Arc.
Clone(self) == [all |-> self.all, index |-> self.index]

\* Clone w as contains sees it: its own all and index, the shared keys.
View(w) ==
    [all |-> clones.own[CursorOf(w)].all,
     index |-> clones.own[CursorOf(w)].index,
     keys |-> fs.keys, cap |-> fs.cap]

InitClones ==
    /\ phase = "frozen"
    /\ pm = PrefixSetMutDefault
    /\ \E b \in Builders :
          /\ fs = freeze(b)
          /\ inserted = Range(b.keys)
          /\ clones = [own |-> [w \in Walkers |-> Clone(freeze(b))],
                       private |-> [w \in Walkers |-> freeze(b)],
                       before |-> [w \in Walkers |-> Clone(freeze(b))],
                       walker |-> 0, prefix |-> <<>>,
                       result |-> FALSE, privateResult |-> FALSE]
    /\ last = NoOp
    /\ acct = Unused
    /\ agg = Unused
    /\ err = Unused

\* Walker w calls contains on its clone; a private deep copy of the clone
\* (clones.private[w]) gets the same call.
CloneContains(w, prefix) ==
    LET c == contains(View(w), prefix)
        p == contains(clones.private[w], prefix)
    IN /\ fs' = [fs EXCEPT !.keys = c.set.keys]
       /\ clones' =
             [own |-> [clones.own EXCEPT ![CursorOf(w)] = Clone(c.set)],
              private |-> [clones.private EXCEPT ![w] = p.set],
              before |-> clones.own,
              walker |-> w, prefix |-> prefix,
              result |-> c.result, privateResult |-> p.result]
       /\ UNCHANGED <<phase, pm, inserted, last, acct, agg, err>>

\* Clone `dst` is dropped and made anew from clone `src` as it is now.
Reclone(src, dst) ==
    /\ src # dst
    /\ clones' =
          [clones EXCEPT !.own[CursorOf(dst)] = Clone(View(src)),
                         !.private[dst] = View(src),
                         !.before = clones.own,
                         !.walker = 0]
    /\ UNCHANGED <<phase, pm, inserted, fs, last, acct, agg, err>>

NextClones ==
    \/ \E w \in Walkers, p \in Paths : CloneContains(w, p)
    \/ \E src \in Walkers, dst \in Walkers : Reclone(src, dst)

SpecClones == InitClones /\ [][NextClones]_vars

(***************************************************************************)
(* TriePrefixSetsMut / TriePrefixSets                                      *)
(***************************************************************************)
\* The hashed addresses of the model (B256 values).
Addr == {1, 2}

\* TriePrefixSetsMut::default()
TriePrefixSetsMutDefault ==
    [account_prefix_set |-> PrefixSetMutDefault,
     storage_prefix_sets |-> <<>>,
     destroyed_accounts |-> {}]

\* Mutant of TriePrefixSetsMut_is_empty: the storage map counts as empty when
\* all its prefix sets are (`values().all(|s| s.is_empty())`).
TriePrefixSetsMut_is_empty_by_values(self) ==
    /\ is_empty(self.account_prefix_set)
    /\ \A h \in DOMAIN self.storage_prefix_sets :
          is_empty(self.storage_prefix_sets[h])
    /\ self.destroyed_accounts = {}

\* TriePrefixSetsMut::is_empty
TriePrefixSetsMut_is_empty(self) ==
    /\ is_empty(self.account_prefix_set)
    /\ DOMAIN self.storage_prefix_sets = {}
    /\ self.destroyed_accounts = {}

\* `self.storage_prefix_sets.entry(hashed_address).or_default()`
EntryOrDefault(map, hashed_address) ==
    IF hashed_address \in DOMAIN map
    THEN map[hashed_address]
    ELSE PrefixSetMutDefault

\* Mutant of TriePrefixSetsMut_extend: the entry of an address is replaced
\* (`insert(hashed_address, prefix_set)`) instead of extended.
TriePrefixSetsMut_extend_replaces(self, other) ==
    [account_prefix_set |->
        extend(self.account_prefix_set, other.account_prefix_set),
     storage_prefix_sets |->
        [h \in DOMAIN self.storage_prefix_sets
                 \cup DOMAIN other.storage_prefix_sets |->
            IF h \in DOMAIN other.storage_prefix_sets
            THEN other.storage_prefix_sets[h]
            ELSE self.storage_prefix_sets[h]],
     destroyed_accounts |->
        self.destroyed_accounts \cup other.destroyed_accounts]

\* Mutant of TriePrefixSetsMut_extend: `get_mut(&hashed_address)` in place of
\* `entry(hashed_address).or_default()`, addresses new to self are skipped.
TriePrefixSetsMut_extend_skips_new(self, other) ==
    [account_prefix_set |->
        extend(self.account_prefix_set, other.account_prefix_set),
     storage_prefix_sets |->
        [h \in DOMAIN self.storage_prefix_sets |->
            IF h \in DOMAIN other.storage_prefix_sets
            THEN extend(self.storage_prefix_sets[h],
                        other.storage_prefix_sets[h])
            ELSE self.storage_prefix_sets[h]],
     destroyed_accounts |->
        self.destroyed_accounts \cup other.destroyed_accounts]

\* Mutant of TriePrefixSetsMut_extend: the storage prefix sets of the accounts
\* that other destroys are removed.
TriePrefixSetsMut_extend_drops_destroyed(self, other) ==
    [account_prefix_set |->
        extend(self.account_prefix_set, other.account_prefix_set),
     storage_prefix_sets |->
        [h \in (DOMAIN self.storage_prefix_sets
                  \cup DOMAIN other.storage_prefix_sets)
                     \ other.destroyed_accounts |->
            IF h \in DOMAIN other.storage_prefix_sets
            THEN extend(EntryOrDefault(self.storage_prefix_sets, h),
                        other.storage_prefix_sets[h])
            ELSE self.storage_prefix_sets[h]],
     destroyed_accounts |->
        self.destroyed_accounts \cup other.destroyed_accounts]

\* Mutant of TriePrefixSetsMut_extend: the entries of other whose prefix set
\* has no keys are skipped.
TriePrefixSetsMut_extend_skips_empty(self, other) ==
    [account_prefix_set |->
        extend(self.account_prefix_set, other.account_prefix_set),
     storage_prefix_sets |->
        [h \in DOMAIN self.storage_prefix_sets
                 \cup {a \in DOMAIN other.storage_prefix_sets :
                          ~is_empty(other.storage_prefix_sets[a])} |->
            IF h \in DOMAIN other.storage_prefix_sets
            THEN extend(EntryOrDefault(self.storage_prefix_sets, h),
                        other.storage_prefix_sets[h])
            ELSE self.storage_prefix_sets[h]],
     destroyed_accounts |->
        self.destroyed_accounts \cup other.destroyed_accounts]

\* TriePrefixSetsMut::extend
TriePrefixSetsMut_extend(self, other) ==
    [account_prefix_set |->
        extend(self.account_prefix_set, other.account_prefix_set),
     storage_prefix_sets |->
        [h \in DOMAIN self.storage_prefix_sets
                 \cup DOMAIN other.storage_prefix_sets |->
            IF h \in DOMAIN other.storage_prefix_sets
            THEN extend(EntryOrDefault(self.storage_prefix_sets, h),
                        other.storage_prefix_sets[h])
            ELSE self.storage_prefix_sets[h]],
     destroyed_accounts |->
        self.destroyed_accounts \cup other.destroyed_accounts]

\* Mutant of TriePrefixSetsMut_freeze: the storage prefix sets of destroyed
\* accounts are left out.
TriePrefixSetsMut_freeze_drops_destroyed(self) ==
    [account_prefix_set |-> freeze(self.account_prefix_set),
     storage_prefix_sets |->
        [h \in DOMAIN self.storage_prefix_sets \ self.destroyed_accounts |->
            freeze(self.storage_prefix_sets[h])],
     destroyed_accounts |-> self.destroyed_accounts]

\* TriePrefixSetsMut::freeze
TriePrefixSetsMut_freeze(self) ==
    [account_prefix_set |-> freeze(self.account_prefix_set),
     storage_prefix_sets |->
        [h \in DOMAIN self.storage_prefix_sets |->
            freeze(self.storage_prefix_sets[h])],
     destroyed_accounts |-> self.destroyed_accounts]

\* TriePrefixSetsMut::clear
TriePrefixSetsMut_clear(self) ==
    [account_prefix_set |-> clear(self.account_prefix_set),
     storage_prefix_sets |-> <<>>,
     destroyed_accounts |-> {}]

\* PrefixSetMut::from(keys)
from(ks) == [all |-> FALSE, keys |-> ks, cap |-> Len(ks)]

\* The prefix sets the aggregates of the model are made of.
AggPrefixSets ==
    {PrefixSetMutDefault, PrefixSetMutAll,
     from(<< <<0>> >>), from(<< <<0, 1>> >>)}

\* Every map from some of the addresses to a prefix set.
AggStorageMaps ==
    UNION {[D -> AggPrefixSets] : D \in SUBSET Addr}

\* The aggregates of the model.
Aggregates ==
    [account_prefix_set : AggPrefixSets,
     storage_prefix_sets : AggStorageMaps,
     destroyed_accounts : SUBSET Addr]

\* How much an aggregate holds: a key or an all flag in the account set, the
\* entries of the storage map, the destroyed addresses.
Things(a) ==
    (IF a.account_prefix_set = PrefixSetMutDefault THEN 0 ELSE 1)
    + Cardinality(DOMAIN a.storage_prefix_sets)
    + Cardinality(a.destroyed_accounts)

\* The aggregates that hold at most two things, the ones extend is called on.
MidAggregates == {a \in Aggregates : Things(a) <= 2}

\* The aggregates that hold at most one thing.
SmallAggregates == {a \in Aggregates : Things(a) <= 1}

\* History record of the last aggregate operation: `before` is the aggregate it
\* was called on, `merged` that aggregate afterwards, `left` its freeze.
NoMerge ==
    [op |-> "new", before |-> TriePrefixSetsMutDefault,
     other |-> TriePrefixSetsMutDefault,
     third |-> TriePrefixSetsMutDefault,
     merged |-> TriePrefixSetsMutDefault,
     left |-> TriePrefixSetsMut_freeze(TriePrefixSetsMutDefault),
     right |-> TriePrefixSetsMut_freeze(TriePrefixSetsMutDefault)]

InitAgg ==
    /\ phase = "mut"
    /\ pm = PrefixSetMutDefault
    /\ inserted = {}
    /\ fs = PrefixSetDefault
    /\ last = NoOp
    /\ acct = Unused
    /\ clones = Unused
    /\ \E a \in MidAggregates : agg = [self |-> a, merge |-> NoMerge]
    /\ err = Unused

\* self.extend(other) (kept in merged) and other.extend(self), each then frozen.
MergeBothWays(other) ==
    /\ agg.merge.op = "new"
    /\ agg' = [agg EXCEPT !.merge =
          [op |-> "both_ways", before |-> agg.self, other |-> other,
           third |-> TriePrefixSetsMutDefault,
           merged |-> TriePrefixSetsMut_extend(agg.self, other),
           left |-> TriePrefixSetsMut_freeze(
                        TriePrefixSetsMut_extend(agg.self, other)),
           right |-> TriePrefixSetsMut_freeze(
                        TriePrefixSetsMut_extend(other, agg.self))]]
    /\ UNCHANGED <<phase, pm, inserted, fs, last, acct, clones, err>>

\* (self.extend(other)).extend(third) and self.extend(other.extend(third)),
\* each then frozen.
MergeRegrouped(other, third) ==
    /\ agg.merge.op = "new"
    /\ agg' = [agg EXCEPT !.merge =
          [op |-> "regrouped", before |-> agg.self,
           other |-> other, third |-> third,
           merged |-> TriePrefixSetsMut_extend(
                          TriePrefixSetsMut_extend(agg.self, other), third),
           left |-> TriePrefixSetsMut_freeze(
                        TriePrefixSetsMut_extend(
                            TriePrefixSetsMut_extend(agg.self, other), third)),
           right |-> TriePrefixSetsMut_freeze(
                        TriePrefixSetsMut_extend(
                            agg.self, TriePrefixSetsMut_extend(other, third)))]]
    /\ UNCHANGED <<phase, pm, inserted, fs, last, acct, clones, err>>

\* clear() on the aggregate as it is now: self, or self extended by other.
AggClear ==
    /\ agg.merge.op \in {"new", "both_ways"}
    /\ LET subject == IF agg.merge.op = "new" THEN agg.self
                                              ELSE agg.merge.merged
       IN agg' = [agg EXCEPT !.merge =
             [op |-> "clear", before |-> subject,
              other |-> TriePrefixSetsMutDefault,
              third |-> TriePrefixSetsMutDefault,
              merged |-> TriePrefixSetsMut_clear(subject),
              left |-> TriePrefixSetsMut_freeze(
                           TriePrefixSetsMut_clear(subject)),
              right |-> TriePrefixSetsMut_freeze(
                            TriePrefixSetsMut_clear(subject))]]
    /\ UNCHANGED <<phase, pm, inserted, fs, last, acct, clones, err>>

NextAgg ==
    \/ AggClear
    \/ \E other \in Aggregates : MergeBothWays(other)
    \/ \E other \in SmallAggregates, third \in SmallAggregates :
          MergeRegrouped(other, third)

SpecAgg == InitAgg /\ [][NextAgg]_vars

(***************************************************************************)
(* InsertBlockErrorKind::ensure_validation_error                           *)
(***************************************************************************)
\* Largest wrapped error value of the model: the errors are 1..MaxErr.
MaxErr == 10

\* The values that stand for the wrapped ConsensusError, BlockValidationError,
\* ProviderError and boxed errors.
ErrValues == 1..MaxErr

\* The ways an InsertBlockErrorKind is built: the four variants, Execution
\* split by the variant of its BlockExecutionError, and Internal by whether
\* the InternalBlockExecutionError is its Other variant.
Constructors ==
    {"Consensus", "Execution/Validation", "Execution/Internal",
     "Execution/Internal/Other", "Provider", "Other"}

\* The InsertBlockErrorKind built the way c names around the error value v.
InsertBlockErrorKind(c, v) ==
    CASE c = "Consensus" -> [variant |-> "Consensus", err |-> v]
      [] c = "Execution/Validation" ->
            [variant |-> "Execution",
             err |-> [variant |-> "Validation", err |-> v]]
      [] c = "Execution/Internal" ->
            [variant |-> "Execution",
             err |-> [variant |-> "Internal",
                      err |-> [variant |-> "EVM", err |-> v]]]
      [] c = "Execution/Internal/Other" ->
            [variant |-> "Execution",
             err |-> [variant |-> "Internal",
                      err |-> [variant |-> "Other", err |-> v]]]
      [] c = "Provider" -> [variant |-> "Provider", err |-> v]
      [] c = "Other" -> [variant |-> "Other", err |-> v]

\* Result::Ok / Result::Err
Ok(value) == [tag |-> "Ok", value |-> value]
Err(value) == [tag |-> "Err", value |-> value]

\* Mutant of ensure_validation_error: every Execution error counts as a
\* validation error.
ensure_validation_error_all_execution(self) ==
    CASE self.variant = "Consensus" ->
            Ok([variant |-> "Consensus", err |-> self.err])
      [] self.variant = "Execution" ->
            Ok([variant |-> "Validation", err |-> self.err.err])
      [] self.variant = "Provider" ->
            Err([variant |-> "Provider", err |-> self.err])
      [] self.variant = "Other" ->
            Err([variant |-> "BlockExecutionError",
                 err |-> [variant |-> "Other", err |-> self.err]])

\* InsertBlockErrorKind::ensure_validation_error
ensure_validation_error(self) ==
    CASE self.variant = "Consensus" ->
            Ok([variant |-> "Consensus", err |-> self.err])
      [] self.variant = "Execution" ->
            (CASE self.err.variant = "Validation" ->
                     Ok([variant |-> "Validation", err |-> self.err.err])
               [] self.err.variant = "Internal" ->
                     Err([variant |-> "BlockExecutionError",
                          err |-> self.err.err]))
      [] self.variant = "Provider" ->
            Err([variant |-> "Provider", err |-> self.err])
      [] self.variant = "Other" ->
            Err([variant |-> "BlockExecutionError",
                 err |-> [variant |-> "Other", err |-> self.err]])

\* No call of ensure_validation_error yet.
NoOutcome == [tag |-> "none", value |-> 0]

InitErr ==
    /\ phase = "mut"
    /\ pm = PrefixSetMutDefault
    /\ inserted = {}
    /\ fs = PrefixSetDefault
    /\ last = NoOp
    /\ acct = Unused
    /\ clones = Unused
    /\ agg = Unused
    /\ \E c \in Constructors, v \in ErrValues :
          err = [how |-> c, value |-> v, kind |-> InsertBlockErrorKind(c, v),
                 outcome |-> NoOutcome]

\* kind.ensure_validation_error(), which consumes the kind.
EnsureValidationError ==
    /\ err.outcome.tag = "none"
    /\ err' = [err EXCEPT !.outcome = ensure_validation_error(err.kind)]
    /\ UNCHANGED <<phase, pm, inserted, fs, last, acct, clones, agg>>

NextErr == EnsureValidationError

SpecErr == InitErr /\ [][NextErr]_vars

(***************************************************************************)
(* Claims about one prefix set (checked under Spec)                        *)
(***************************************************************************)
\* Some key of the frozen set starts with prefix.
SomeKeyStartsWith(set, prefix) ==
    \E i \in 1..Len(set.keys) : StartsWith(set.keys[i], prefix)

\* C1: on a frozen set with all = false, in every cursor state that earlier
\* contains calls can leave (backward query orders included), contains(P)
\* returns true exactly when some key starts with P, for every prefix P; the
\* answer of the call just made obeys the same rule whatever the cursor was.
C1_ContainsIffSomeKeyStartsWith ==
    (phase = "frozen" /\ ~fs.all) =>
        /\ \A P \in Paths :
              LET c == contains(fs, P)
              IN ~c.panic /\ (c.result <=> SomeKeyStartsWith(fs, P))
        /\ last.op = "contains" =>
              (~last.panic /\ (last.result <=> SomeKeyStartsWith(fs, last.prefix)))

\* A backward query that rewound the cursor two keys and was answered true.
C1_Witness ==
    /\ last.op = "contains"
    /\ ~fs.all
    /\ last.rewinds >= 2
    /\ last.result

\* C2: after insert / extend / extend_keys calls on a builder with all = false
\* and freeze, the frozen keys are strictly ascending, their set is the set of
\* inserted paths, and len() is the number of distinct inserted paths.
C2_FreezeSortsAndDedups ==
    (phase = "frozen" /\ ~fs.all) =>
        /\ \A i \in 1..(Len(fs.keys) - 1) : Less(fs.keys[i], fs.keys[i + 1])
        /\ Range(fs.keys) = inserted
        /\ Len(fs.keys) = Cardinality(inserted)

\* A freeze that dropped a duplicate and kept at least two keys.
C2_Witness ==
    /\ last.op = "freeze"
    /\ ~fs.all
    /\ last.n > Len(fs.keys)
    /\ Len(fs.keys) >= 2

\* C3: a frozen set whose all flag is true answers true to contains(P) for
\* every prefix P, the empty one included, whatever was inserted before
\* freeze, and the call leaves the cursor unchanged.
C3_AllAnswersTrue ==
    (phase = "frozen" /\ fs.all) =>
        /\ \A P \in Paths :
              LET c == contains(fs, P)
              IN c.result /\ ~c.panic /\ c.set = fs
        /\ last.op = "contains" => (last.result /\ fs.index = last.pre)

\* contains of the empty prefix on an all set whose builder was given paths.
C3_Witness ==
    /\ phase = "frozen"
    /\ fs.all
    /\ last.op = "contains"
    /\ last.prefix = <<>>
    /\ inserted # {}

\* C4: after extend(other) the all flag of self is true exactly when the flag
\* of self or the flag of other was true before the call.
C4_ExtendOrsAll ==
    last.op = "extend" => (pm.all <=> (last.selfAll \/ last.otherAll))

\* An all set extended by a normal set that brought keys.
C4_Witness ==
    /\ last.op = "extend"
    /\ last.selfAll
    /\ ~last.otherAll
    /\ len(pm) > last.n
    /\ pm.all

\* C7: the cursor is always within 0..keys.len(), also after a contains that
\* ran off the end of keys without resolving.
C7_CursorInRange ==
    /\ fs.index >= 0
    /\ fs.index <= Len(fs.keys)

\* A miss at the end of a non-empty set with the cursor off the first key.
C7_Witness ==
    /\ last.op = "contains"
    /\ last.atEnd
    /\ fs.index > 0
    /\ ~last.result

\* C8 as stated: a contains repeated with the same prefix returns the same
\* result and leaves the cursor where the first call left it, and when the
\* result is true the cursor holds a key that starts with the prefix.
C8_RepeatHoldsMatchingKey ==
    (last.op = "contains" /\ last.repeated) =>
        /\ last.result = last.prevResult
        /\ fs.index = last.pre
        /\ last.result =>
              /\ fs.index < Len(fs.keys)
              /\ StartsWith(fs.keys[fs.index + 1], last.prefix)

\* C8 amended: a contains repeated with the same prefix returns the same
\* result and leaves the cursor where the first call left it; when the result
\* is true and the all flag is false, the cursor holds a key that starts with
\* the prefix (an all set has no keys).
C8_RepeatStable ==
    (last.op = "contains" /\ last.repeated) =>
        /\ last.result = last.prevResult
        /\ fs.index = last.pre
        /\ (last.result /\ ~fs.all) =>
              /\ fs.index < Len(fs.keys)
              /\ StartsWith(fs.keys[fs.index + 1], last.prefix)

\* A repeated query answered true by a key that is longer than the prefix and
\* is not the first key, so the second call rewinds and scans forward again.
C8_Witness ==
    /\ last.op = "contains"
    /\ last.repeated
    /\ last.result
    /\ ~fs.all
    /\ last.rewinds = 1
    /\ fs.index > 0

\* C10: after freeze the capacity of the frozen key vector equals its length,
\* for a default builder and for with_capacity(n), with or without
\* duplicates, and in the all branch where both are 0.
C10_FreezeShrinksCapacity ==
    phase = "frozen" => fs.cap = Len(fs.keys)

\* A freeze of a builder that had spare capacity and held a duplicate.
C10_Witness ==
    /\ last.op = "freeze"
    /\ ~fs.all
    /\ last.cap > last.n
    /\ last.n > Len(fs.keys)
    /\ Len(fs.keys) >= 1

\* C11: freezing a builder whose all flag is true yields a set with
\* all = true, no keys (len() = 0, is_empty()) and cursor 0, whatever paths
\* were inserted, extended or passed to extend_keys before; later contains
\* calls leave that set as it is.
C11_FreezeOfAllIsEmptyAll ==
    /\ (last.op = "freeze" /\ last.selfAll) =>
          (fs.all /\ fs.keys = <<>> /\ len(fs) = 0 /\ is_empty(fs)
             /\ fs.index = 0)
    /\ (phase = "frozen" /\ fs.all) => (fs.keys = <<>> /\ fs.index = 0)

\* The freeze of an all-builder that held two keys.
C11_Witness ==
    /\ last.op = "freeze"
    /\ last.selfAll
    /\ last.n >= 2
    /\ Cardinality(inserted) >= 2

\* C12: for the zero-length prefix contains returns true exactly when the set
\* has a key or has all set, from every reachable cursor state; on a set with
\* no keys and all = false (PrefixSet::default() included) contains returns
\* false for every prefix.
C12_EmptyPrefixAndEmptySet ==
    /\ \A P \in Paths : ~contains(PrefixSetDefault, P).result
    /\ phase = "frozen" =>
          /\ contains(fs, <<>>).result <=> (Len(fs.keys) > 0 \/ fs.all)
          /\ (Len(fs.keys) = 0 /\ ~fs.all) =>
                \A P \in Paths :
                    LET c == contains(fs, P) IN ~c.result /\ ~c.panic
          /\ (last.op = "contains" /\ last.prefix = <<>>) =>
                (last.result <=> (Len(fs.keys) > 0 \/ fs.all))

\* The zero-length prefix asked with the cursor on a later key, answered true.
C12_Witness ==
    /\ last.op = "contains"
    /\ last.prefix = <<>>
    /\ last.pre > 0
    /\ last.result
    /\ ~fs.all

\* C13: when neither A nor B has the all flag, freezing A after A.extend(B)
\* gives the union of the two key sets: contains(P) is true exactly when a
\* key of A or of B starts with P, and the iteration yields the union in
\* ascending order, the same when B is extended by A instead.
C13_ExtendIsUnion ==
    (last.op = "extend" /\ ~last.selfAll /\ ~last.otherAll) =>
        LET A == [all |-> FALSE, keys |-> last.selfKeys, cap |-> last.cap]
            B == from(last.arg)
            union == Range(last.selfKeys) \cup Range(last.arg)
            ab == freeze(pm)
            ba == freeze(extend(B, A))
        IN /\ \A P \in Paths :
                 contains(ab, P).result <=>
                     (\E k \in union : StartsWith(k, P))
           /\ Range(iter(ab).items) = union
           /\ \A i \in 1..(Len(ab.keys) - 1) :
                 Less(iter(ab).items[i], iter(ab).items[i + 1])
           /\ iter(ba).items = iter(ab).items

\* An extend of a keyed builder by a keyed one that holds a smaller key and a
\* key the builder has already.
C13_Witness ==
    /\ last.op = "extend"
    /\ ~last.selfAll /\ ~last.otherAll
    /\ last.selfKeys # <<>>
    /\ \E i \in 1..Len(last.arg) : Less(last.arg[i], last.selfKeys[1])
    /\ \E i \in 1..Len(last.arg) : last.arg[i] \in Range(last.selfKeys)

\* C16: iter() on a frozen set yields every key once, in ascending order,
\* whatever the cursor is, and leaves the cursor where it was, so that a
\* contains call after it behaves as it would have without it.
C16_IterYieldsKeysInOrder ==
    last.op = "iter" =>
        /\ Len(last.yielded) = Len(fs.keys)
        /\ Range(last.yielded) = Range(fs.keys)
        /\ ~fs.all => Range(last.yielded) = inserted
        /\ \A i \in 1..(Len(last.yielded) - 1) :
              Less(last.yielded[i], last.yielded[i + 1])
        /\ fs.index = last.pre

\* An iteration over three keys with the cursor on the last of them.
C16_Witness ==
    /\ last.op = "iter"
    /\ Len(last.yielded) = 3
    /\ last.pre = 2

\* C19 as stated: while the all flag of a builder is set, the paths passed to
\* insert, extend or extend_keys are discarded, the keys sequence does not
\* grow.
C19_KeysDoNotGrowWhileAll ==
    (last.op \in {"insert", "extend", "extend_keys"} /\ last.selfAll) =>
        (len(pm) = last.n /\ pm.keys = last.selfKeys)

\* C19 amended: while the all flag is set, the paths passed to insert, extend
\* or extend_keys are still appended (len() grows by their number); they are
\* dropped by freeze only, which yields all = true and no keys.
C19_KeysGrowWhileAllUntilFreeze ==
    (last.op \in {"insert", "extend", "extend_keys"} /\ last.selfAll) =>
        /\ pm.all
        /\ pm.keys = last.selfKeys \o last.arg
        /\ len(pm) = last.n + Len(last.arg)
        /\ freeze(pm).all
        /\ freeze(pm).keys = <<>>

\* An insert into an all-builder that had no key: is_empty() turns false.
C19_Witness ==
    /\ last.op = "insert"
    /\ last.selfAll
    /\ last.n = 0
    /\ len(pm) = 1
    /\ ~is_empty(pm)

\* C20: after the rewind loop of contains(P) either the cursor is 0 or the
\* key at the cursor is <= P, and no key below the cursor starts with P, from
\* every reachable cursor state.
C20_RewindPostcondition ==
    (phase = "frozen" /\ ~fs.all) =>
        \A P \in Paths :
            LET r == Rewind(fs.keys, fs.index, P, 0)
            IN /\ ~r.panic
               /\ r.index <= fs.index
               /\ r.index = 0 \/ LessEq(fs.keys[r.index + 1], P)
               /\ \A i \in 0..(r.index - 1) : ~StartsWith(fs.keys[i + 1], P)

\* A forward query followed by a query for exactly an earlier key: the cursor
\* was rewound onto that key.
C20_Witness ==
    /\ last.op = "contains"
    /\ ~fs.all
    /\ last.rewinds >= 1
    /\ last.result
    /\ fs.index > 0
    /\ fs.keys[fs.index + 1] = last.prefix

\* The indexes of the keys that are >= prefix.
AtLeast(keys, prefix) == {i \in 0..(Len(keys) - 1) : LessEq(prefix, keys[i + 1])}

\* C21: on a set with all = false, when contains(P) returns true the cursor
\* ends at the least index whose key starts with P; when it returns false on
\* meeting a key greater than P, the cursor ends at the least index whose key
\* is greater than P; either way that is the index of the least key >= P,
\* whatever the cursor was at entry.
C21_ScanEndsAtLeastKeyAtLeastP ==
    (phase = "frozen" /\ ~fs.all) =>
        \A P \in Paths :
            LET c == contains(fs, P)
                i == c.set.index
            IN (~c.atEnd /\ ~c.panic) =>
                  /\ i \in AtLeast(fs.keys, P)
                  /\ \A j \in AtLeast(fs.keys, P) : i <= j
                  /\ c.result =>
                        /\ StartsWith(fs.keys[i + 1], P)
                        /\ \A j \in 0..(i - 1) : ~StartsWith(fs.keys[j + 1], P)
                  /\ ~c.result =>
                        /\ Greater(fs.keys[i + 1], P)
                        /\ \A j \in 0..(i - 1) : ~Greater(fs.keys[j + 1], P)

\* A query answered false on a greater key in the middle of the keys, after
\* the cursor was rewound from the last key.
C21_Witness ==
    /\ last.op = "contains"
    /\ ~fs.all
    /\ ~last.result /\ ~last.atEnd
    /\ last.rewinds >= 1
    /\ last.pre = 2
    /\ fs.index = 1

\* C22: contains never reads keys[cursor] out of bounds: on a frozen set with
\* keys the cursor is below keys.len(); on a set without keys
\* (PrefixSet::default() and the freeze of an all-builder included) the cursor
\* is 0 and the rewind loop does not read keys[cursor]; no contains call
\* panics.
C22_NoOutOfBoundsRead ==
    /\ \A P \in Paths : ~Rewind(PrefixSetDefault.keys, 0, P, 0).panic
    /\ phase = "frozen" =>
          /\ Len(fs.keys) > 0 => fs.index < Len(fs.keys)
          /\ Len(fs.keys) = 0 => fs.index = 0
          /\ \A P \in Paths :
                /\ ~Rewind(fs.keys, fs.index, P, 0).panic
                /\ ~contains(fs, P).panic
                /\ Len(fs.keys) = 0 => Rewind(fs.keys, fs.index, P, 0).steps = 0
          /\ last.op = "contains" => ~last.panic

\* A contains call on a frozen set that has no key and no all flag.
C22_Witness ==
    /\ last.op = "contains"
    /\ ~fs.all
    /\ fs.keys = <<>>
    /\ ~last.panic
    /\ ~last.result

\* C23: insert(path) appends: len() grows by exactly 1 even when path is
\* already among the keys, is_empty() is false afterwards, the keys that were
\* there keep their order, the all flag is unchanged; the mutable len() is
\* never below the frozen one.
C23_InsertAppends ==
    last.op = "insert" =>
        /\ len(pm) = last.n + 1
        /\ ~is_empty(pm)
        /\ SubSeq(pm.keys, 1, last.n) = last.selfKeys
        /\ pm.keys[last.n + 1] = last.arg[1]
        /\ pm.all = last.selfAll
        /\ Len(freeze(pm).keys) <= len(pm)

\* The insert of a path the builder holds already: two keys, one after freeze.
C23_Witness ==
    /\ last.op = "insert"
    /\ ~last.selfAll
    /\ last.arg[1] \in Range(last.selfKeys)
    /\ len(pm) = 2
    /\ Len(freeze(pm).keys) = 1

\* C24: the all flag of a builder is sticky: insert and extend_keys leave it
\* as it is, extend can only raise it (to the or of both flags), and only
\* clear() turns it from true to false.
C24_AllIsSticky ==
    [][phase' = "mut" =>
          /\ last'.op \in {"insert", "extend_keys"} => pm'.all = pm.all
          /\ last'.op = "extend" =>
                /\ pm.all => pm'.all
                /\ pm'.all = (pm.all \/ last'.otherAll)
          /\ last'.op = "clear" => ~pm'.all
          /\ (pm.all /\ ~pm'.all) => last'.op = "clear"]_vars

\* An extend_keys with two paths on a builder whose all flag is set.
C24_Witness ==
    /\ last.op = "extend_keys"
    /\ last.selfAll
    /\ pm.all
    /\ Len(last.arg) = 2

\* C27: when contains(P) on a set with all = false returns false because the
\* scan reached the end of the keys (no key from the cursor on starts with P
\* or is greater than P), the cursor after the call is the cursor before it.
C27_MissAtEndKeepsCursor ==
    /\ (last.op = "contains" /\ ~fs.all /\ last.atEnd) =>
          /\ ~last.result
          /\ last.rewinds = 0
          /\ fs.index = last.pre
          /\ \A i \in (fs.index + 1)..Len(fs.keys) : Less(fs.keys[i], last.prefix)
    /\ (phase = "frozen" /\ ~fs.all) =>
          \A P \in Paths :
              LET c == contains(fs, P)
              IN c.atEnd => (c.set.index = fs.index /\ ~c.result)

\* A miss at the end of three keys with the cursor on the first of them.
C27_Witness ==
    /\ last.op = "contains"
    /\ ~fs.all
    /\ last.atEnd
    /\ Len(fs.keys) = 3
    /\ last.examined = 3
    /\ fs.index = 0

(***************************************************************************)
(* Claims about ascending runs (SpecMono) and about clones (SpecClones)    *)
(***************************************************************************)
\* C6: over a run of q contains queries in non-decreasing order on a freshly
\* frozen set of n keys (all = false), the forward scans examine at most
\* n + 2q keys in total, also when queries fall beyond the last key.
C6_AscendingRunExaminesAtMostNPlus2Q ==
    acct.examined <= Len(fs.keys) + 2 * acct.queries

\* C26: in a run of contains queries in non-decreasing order on a freshly
\* frozen set, the rewind loop of each call steps the cursor back at most
\* once, and the cursor after each call is not below the cursor after the
\* call before it.
C26_AscendingRunRewindsAtMostOnce ==
    last.op = "contains" =>
        /\ last.rewinds <= 1
        /\ fs.index >= last.pre

\* The third query of an ascending run steps back once from the last of three
\* keys and is answered true there.
C26_Witness ==
    /\ last.op = "contains"
    /\ acct.queries >= 3
    /\ last.rewinds = 1
    /\ last.result
    /\ last.pre = 2
    /\ fs.index = 2

\* C9: two clones of one frozen set whose contains calls interleave behave as
\* if each ran alone: a call on one clone leaves the other clone's all flag
\* and cursor and the shared keys as they were, and its answer and cursor are
\* those of the same calls on a private copy.
C9_ClonesAreIndependent ==
    clones.walker \in Walkers =>
        LET w == clones.walker
        IN /\ \A o \in Walkers \ {w} : clones.own[o] = clones.before[o]
           /\ clones.own[w].all = clones.before[w].all
           /\ fs.keys = clones.private[w].keys
           /\ \A o \in Walkers : fs.keys = clones.private[o].keys
           /\ clones.result = clones.privateResult
           /\ clones.own[w] = Clone(clones.private[w])

\* Walker 2 moved its cursor while walker 1's cursor stands elsewhere, off 0.
C9_Witness ==
    /\ clones.walker = 2
    /\ ~fs.all
    /\ clones.own[2].index # clones.before[2].index
    /\ clones.own[1].index > 0
    /\ clones.own[1].index # clones.own[2].index
    /\ clones.result

(***************************************************************************)
(* Claims about the aggregate (SpecAgg)                                    *)
(***************************************************************************)
\* Two frozen prefix sets give the same answer to every contains query.
SameAnswers(x, y) ==
    \A P \in Paths : contains(x, P).result = contains(y, P).result

\* Two frozen aggregates agree: same account-set answers, same storage
\* addresses with the same answers for each, same destroyed accounts.
SameAggregate(x, y) ==
    /\ SameAnswers(x.account_prefix_set, y.account_prefix_set)
    /\ DOMAIN x.storage_prefix_sets = DOMAIN y.storage_prefix_sets
    /\ \A h \in DOMAIN x.storage_prefix_sets :
          SameAnswers(x.storage_prefix_sets[h], y.storage_prefix_sets[h])
    /\ x.destroyed_accounts = y.destroyed_accounts

\* C5: TriePrefixSetsMut::extend is order-insensitive up to freeze: freezing
\* A.extend(B) and B.extend(A), and likewise (A.extend(B)).extend(C) and
\* A.extend(B.extend(C)), gives aggregates with the same account-set answers,
\* the same storage addresses with the same answers for each address, and the
\* same destroyed accounts, also with overlapping addresses and all flags.
C5_ExtendOrderInsensitive ==
    agg.merge.op \in {"both_ways", "regrouped"} =>
        SameAggregate(agg.merge.left, agg.merge.right)

\* Both aggregates hold a different key for the same address, and one of the
\* account sets is an all set.
C5_Witness ==
    /\ agg.merge.op = "both_ways"
    /\ \E h \in DOMAIN agg.self.storage_prefix_sets
                  \cap DOMAIN agg.merge.other.storage_prefix_sets :
          /\ ~is_empty(agg.self.storage_prefix_sets[h])
          /\ ~is_empty(agg.merge.other.storage_prefix_sets[h])
          /\ agg.self.storage_prefix_sets[h]
                # agg.merge.other.storage_prefix_sets[h]
          /\ Len(agg.merge.left.storage_prefix_sets[h].keys) = 2
    /\ agg.self.account_prefix_set.all
    /\ ~agg.merge.other.account_prefix_set.all

\* C14: after TriePrefixSetsMut::extend(other) the storage addresses are the
\* union of both maps; for an address of other the set is self's set for it
\* (the empty set when self has none) extended by other's: all flags or-ed,
\* keys unioned after freeze; the entries of self for addresses absent from
\* other are unchanged; destroyed_accounts is the union.
C14_AggregateExtend ==
    agg.merge.op = "both_ways" =>
        LET s == agg.self.storage_prefix_sets
            o == agg.merge.other.storage_prefix_sets
            m == agg.merge.merged.storage_prefix_sets
        IN /\ DOMAIN m = DOMAIN s \cup DOMAIN o
           /\ \A h \in DOMAIN o :
                 LET base == IF h \in DOMAIN s THEN s[h]
                                               ELSE PrefixSetMutDefault
                     union == Range(base.keys) \cup Range(o[h].keys)
                 IN /\ h \in DOMAIN m
                    /\ m[h].all = (base.all \/ o[h].all)
                    /\ Range(m[h].keys) = union
                    /\ Range(freeze(m[h]).keys) =
                          (IF m[h].all THEN {} ELSE union)
           /\ \A h \in DOMAIN s \ DOMAIN o : h \in DOMAIN m /\ m[h] = s[h]
           /\ agg.merge.merged.destroyed_accounts =
                 agg.self.destroyed_accounts
                    \cup agg.merge.other.destroyed_accounts

\* An extend where one address is in both maps with different keys, another
\* is new to self, and both sides bring a destroyed account.
C14_Witness ==
    /\ agg.merge.op = "both_ways"
    /\ \E h \in DOMAIN agg.self.storage_prefix_sets
                  \cap DOMAIN agg.merge.other.storage_prefix_sets :
          /\ Len(agg.self.storage_prefix_sets[h].keys) = 1
          /\ Len(agg.merge.other.storage_prefix_sets[h].keys) = 1
          /\ Len(agg.merge.left.storage_prefix_sets[h].keys) = 2
    /\ DOMAIN agg.merge.other.storage_prefix_sets
          \ DOMAIN agg.self.storage_prefix_sets # {}
    /\ agg.self.destroyed_accounts # {}
    /\ agg.merge.other.destroyed_accounts
          \ agg.self.destroyed_accounts # {}

\* C15: TriePrefixSetsMut::freeze keeps the shape of the aggregate: the same
\* storage addresses, each value the freeze of the mutable set, the account
\* set the freeze of the mutable account set, destroyed_accounts as it was;
\* an address can be destroyed and have a storage prefix set.
C15_AggregateFreeze ==
    agg.merge.op # "new" =>
        LET m == agg.merge.merged
            f == agg.merge.left
        IN /\ DOMAIN f.storage_prefix_sets = DOMAIN m.storage_prefix_sets
           /\ \A h \in DOMAIN m.storage_prefix_sets :
                 /\ h \in DOMAIN f.storage_prefix_sets
                 /\ f.storage_prefix_sets[h] = freeze(m.storage_prefix_sets[h])
           /\ f.account_prefix_set = freeze(m.account_prefix_set)
           /\ f.destroyed_accounts = m.destroyed_accounts

\* The freeze of an aggregate where a destroyed address has a storage prefix
\* set with two keys and the other address has one without being destroyed.
C15_Witness ==
    /\ agg.merge.op = "both_ways"
    /\ \E h \in agg.merge.left.destroyed_accounts :
          /\ h \in DOMAIN agg.merge.left.storage_prefix_sets
          /\ Len(agg.merge.left.storage_prefix_sets[h].keys) = 2
    /\ DOMAIN agg.merge.left.storage_prefix_sets
          \ agg.merge.left.destroyed_accounts # {}

\* C17: TriePrefixSetsMut::is_empty() is true exactly when the account set
\* has no keys, the storage map has no entries and destroyed_accounts has no
\* elements, for the aggregate before and after every extend and clear.
C17_AggregateIsEmpty ==
    \A x \in {agg.self, agg.merge.before, agg.merge.other, agg.merge.merged} :
        TriePrefixSetsMut_is_empty(x) <=>
            /\ len(x.account_prefix_set) = 0
            /\ Cardinality(DOMAIN x.storage_prefix_sets) = 0
            /\ Cardinality(x.destroyed_accounts) = 0

\* An extend that leaves no account key and no destroyed account but a storage
\* entry whose prefix set is empty: is_empty() is false.
C17_Witness ==
    /\ agg.merge.op = "both_ways"
    /\ TriePrefixSetsMut_is_empty(agg.self)
    /\ ~TriePrefixSetsMut_is_empty(agg.merge.merged)
    /\ agg.merge.merged.account_prefix_set.keys = <<>>
    /\ agg.merge.merged.destroyed_accounts = {}
    /\ \A h \in DOMAIN agg.merge.merged.storage_prefix_sets :
          agg.merge.merged.storage_prefix_sets[h] = PrefixSetMutDefault

\* C18: clear() resets to the empty state without the all flag: the account
\* set has all = false and len() = 0 and its freeze answers false to every
\* contains; the storage map and destroyed_accounts are empty and is_empty()
\* is true.
C18_ClearResets ==
    agg.merge.op = "clear" =>
        LET m == agg.merge.merged
        IN /\ ~m.account_prefix_set.all
           /\ len(m.account_prefix_set) = 0
           /\ is_empty(m.account_prefix_set)
           /\ \A P \in Paths :
                 ~contains(freeze(m.account_prefix_set), P).result
           /\ \A P \in Paths :
                 ~contains(agg.merge.left.account_prefix_set, P).result
           /\ DOMAIN m.storage_prefix_sets = {}
           /\ m.destroyed_accounts = {}
           /\ TriePrefixSetsMut_is_empty(m)

\* The clear of an aggregate whose account set had the all flag and a key,
\* with storage entries and a destroyed account.
C18_Witness ==
    /\ agg.merge.op = "clear"
    /\ agg.merge.before.account_prefix_set.all
    /\ len(agg.merge.before.account_prefix_set) > 0
    /\ DOMAIN agg.merge.before.storage_prefix_sets # {}
    /\ agg.merge.before.destroyed_accounts # {}

\* C25: if TriePrefixSetsMut::is_empty() is true the aggregate records no
\* change: after freeze its account_prefix_set answers false to contains(P)
\* for every prefix P (and a PrefixSetMut whose is_empty() is true freezes to
\* a set that answers false to every contains).
C25_EmptyRecordsNoChange ==
    \A x \in {agg.self, agg.merge.other, agg.merge.merged} :
        /\ TriePrefixSetsMut_is_empty(x) =>
              \A P \in Paths :
                  ~contains(TriePrefixSetsMut_freeze(x).account_prefix_set,
                            P).result
        /\ is_empty(x.account_prefix_set) =>
              \A P \in Paths :
                  ~contains(freeze(x.account_prefix_set), P).result

\* The aggregate without the destroyed accounts / without the prefix sets.
WithoutDestroyed(a) == [a EXCEPT !.destroyed_accounts = {}]
WithoutPrefixSets(a) ==
    [a EXCEPT !.account_prefix_set = PrefixSetMutDefault,
              !.storage_prefix_sets = <<>>]

\* C28: the three components of the aggregate are independent under extend
\* and freeze: the account and storage prefix sets of the result are those
\* obtained without any destroyed account, a storage prefix set stays for a
\* destroyed address, and destroyed_accounts is the union of the two
\* destroyed sets, the same as without any prefix set.
C28_ComponentsIndependent ==
    agg.merge.op = "both_ways" =>
        LET s == agg.self
            o == agg.merge.other
            m == agg.merge.merged
            f == agg.merge.left
            m0 == TriePrefixSetsMut_extend(WithoutDestroyed(s),
                                           WithoutDestroyed(o))
            d0 == TriePrefixSetsMut_extend(WithoutPrefixSets(s),
                                           WithoutPrefixSets(o))
        IN /\ m.account_prefix_set = m0.account_prefix_set
           /\ m.storage_prefix_sets = m0.storage_prefix_sets
           /\ Range(m.account_prefix_set.keys) =
                 Range(s.account_prefix_set.keys)
                    \cup Range(o.account_prefix_set.keys)
           /\ DOMAIN m.storage_prefix_sets =
                 DOMAIN s.storage_prefix_sets \cup DOMAIN o.storage_prefix_sets
           /\ m.destroyed_accounts = d0.destroyed_accounts
           /\ m.destroyed_accounts =
                 s.destroyed_accounts \cup o.destroyed_accounts
           /\ f.account_prefix_set =
                 TriePrefixSetsMut_freeze(m0).account_prefix_set
           /\ f.storage_prefix_sets =
                 TriePrefixSetsMut_freeze(m0).storage_prefix_sets
           /\ f.destroyed_accounts = m.destroyed_accounts

\* An extend where other destroys an address for which self has a storage
\* prefix set with a key, and no account key is involved.
C28_Witness ==
    /\ agg.merge.op = "both_ways"
    /\ \E h \in agg.merge.other.destroyed_accounts :
          /\ h \notin agg.self.destroyed_accounts
          /\ h \in DOMAIN agg.self.storage_prefix_sets
          /\ h \notin DOMAIN agg.merge.other.storage_prefix_sets
          /\ Len(agg.merge.left.storage_prefix_sets[h].keys) = 1
    /\ agg.merge.merged.account_prefix_set = PrefixSetMutDefault

\* C29: after A.extend(B), A.is_empty() is true exactly when A and B were both
\* is_empty() before the call; extending by an aggregate with a storage entry
\* whose prefix set has no keys gives a non-empty aggregate.
C29_ExtendIsEmpty ==
    agg.merge.op = "both_ways" =>
        /\ TriePrefixSetsMut_is_empty(agg.merge.merged) <=>
              (TriePrefixSetsMut_is_empty(agg.self)
                 /\ TriePrefixSetsMut_is_empty(agg.merge.other))
        /\ (\E h \in DOMAIN agg.merge.other.storage_prefix_sets :
               is_empty(agg.merge.other.storage_prefix_sets[h])) =>
              ~TriePrefixSetsMut_is_empty(agg.merge.merged)

\* The default aggregate extended by one whose only content is a storage entry
\* with the default prefix set.
C29_Witness ==
    /\ agg.merge.op = "both_ways"
    /\ agg.self = TriePrefixSetsMutDefault
    /\ agg.merge.other.account_prefix_set = PrefixSetMutDefault
    /\ agg.merge.other.destroyed_accounts = {}
    /\ Cardinality(DOMAIN agg.merge.other.storage_prefix_sets) = 1
    /\ \A h \in DOMAIN agg.merge.other.storage_prefix_sets :
          agg.merge.other.storage_prefix_sets[h] = PrefixSetMutDefault
    /\ ~TriePrefixSetsMut_is_empty(agg.merge.merged)

(***************************************************************************)
(* Claims about ensure_validation_error (SpecErr)                          *)
(***************************************************************************)
\* C30: ensure_validation_error gives every error kind exactly one outcome:
\* Consensus and Execution(Validation) give Ok(InsertBlockValidationError),
\* Execution(Internal), Provider and Other give Err(InsertBlockFatalError);
\* no internal, provider or other error comes out as a validation error, and
\* the wrapped error value is the one that went in.
C30_EnsureValidationErrorClassifies ==
    err.outcome.tag # "none" =>
        LET o == err.outcome
            invalid == err.how \in {"Consensus", "Execution/Validation"}
        IN /\ o.tag \in {"Ok", "Err"}
           /\ (o.tag = "Ok") <=> invalid
           /\ o.tag = "Ok" =>
                 /\ o.value.variant \in {"Consensus", "Validation"}
                 /\ (o.value.variant = "Consensus") <=> (err.how = "Consensus")
                 /\ o.value.err = err.value
           /\ o.tag = "Err" =>
                 /\ o.value.variant \in {"Provider", "BlockExecutionError"}
                 /\ (o.value.variant = "Provider") <=> (err.how = "Provider")
                 /\ o.value.variant = "Provider" => o.value.err = err.value
                 /\ o.value.variant = "BlockExecutionError" =>
                       /\ o.value.err.err = err.value
                       /\ (o.value.err.variant = "EVM") <=>
                             (err.how = "Execution/Internal")

\* An internal execution error came out as a fatal error.
C30_Witness ==
    /\ err.how = "Execution/Internal"
    /\ err.outcome.tag = "Err"
    /\ err.outcome.value.variant = "BlockExecutionError"

====
